---- MODULE Spec2Model ----
(***************************************************************************)
(* TelnetDiscordBridge (src/main.py): one bridge object shared by the      *)
(* /connect and /disconnect commands, the on_message relay and the         *)
(* listening tasks the bridge creates.  All coroutines run on one asyncio  *)
(* event loop, so each action below is the code between two awaits.        *)
(*                                                                         *)
(* Spec is the bridge with its commands, relay and listening tasks;        *)
(* SpecWire is the same with the lines written on each link recorded;      *)
(* SpecFilter applies remove_ignored_user_lines, alone and as the          *)
(* listening task applies it, to the texts of a bounded set.               *)
(***************************************************************************)
EXTENDS Integers, Sequences, FiniteSets, TLC

\* ---- bounds -------------------------------------------------------------
MaxConnects == 2      \* /connect invocations
MaxDisconnects == 1   \* /disconnect invocations
MaxSends == 2         \* relayed chat messages
MaxEvents == 1        \* things the remote side does: chunks sent, links closed or broken
MaxCalls == 3         \* invocations of all three handlers together
MaxPieces == 5        \* pieces an input text of the line filter is put together from

\* ---- program constants --------------------------------------------------
WATCHTOWER_CHANNEL_ID == 1

None == 0
ConnIds == 1..MaxConnects
DiscIds == 1..MaxDisconnects
SendIds == 1..MaxSends
\* The link opened by connect call c is link c; the task it creates is task c.
LinkIds == ConnIds
TaskIds == ConnIds

VARIABLES
  reader, writer, connected, listen_task, discord_channel, connect_time,
  link,      \* link[l] = [st, closed]: the telnet connection; st is what the
             \* remote side did to it, closed whether writer.close() was called
  nwrites,   \* the number of writer.write() calls made so far, on any link
  wlog,      \* wlog.of[l]: the write() calls made on link l's writer, in order;
             \* recorded in the behaviours that start with wlog.on
  sinklog,   \* the send() calls made on the channel, in order
  task,      \* task[t]: a _listen_telnet task
  conn,      \* conn[c]: a connect_command invocation
  disc,      \* disc[d]: a disconnect_command invocation
  snd,       \* snd[s]: an on_message invocation
  now,       \* time.monotonic()
  recvd,     \* chunks read so far
  IGNORED_USERS,  \* the configured list of ignored users, as a set of texts
  text,      \* a chunk of text, as the sequence of its characters
  filtered,  \* what remove_ignored_user_lines returned for text, and then
             \* for its own result
  sent       \* what _listen_telnet sent to the channel for the chunk text

bridge == <<reader, writer, connected, listen_task, discord_channel, connect_time>>
\* the variables of the line filter
fvars == <<IGNORED_USERS, text, filtered, sent>>
\* the variables of the bridge and its environment
pvars == <<reader, writer, connected, listen_task, discord_channel, connect_time,
           link, nwrites, wlog, sinklog, task, conn, disc, snd, now, recvd>>
vars == <<pvars, fvars>>

\* ---- the link (telnetlib3 reader/writer pair) ---------------------------
Writable(l) == link[l].st = "open" /\ ~link[l].closed
AtEof(l) == link[l].st = "eof" \/ link[l].closed

\* What the remote side does (sends a chunk, closes the connection, breaks
\* it) shows in the program only where a read or a drain returns, so it is
\* decided there.
Events == recvd + Cardinality({l \in LinkIds : link[l].st \in {"eof", "failed"}})

\* The remote side closes (st = "eof") or breaks (st = "failed") link l.
LinkBreaks(l, st) ==
  /\ Writable(l)
  /\ Events < MaxEvents
  /\ link' = [link EXCEPT ![l].st = st]

\* drain() on link l raises: the connection is lost or closing.
DrainRaises(l) ==
  \/ ~Writable(l) /\ UNCHANGED link
  \/ \E st \in {"eof", "failed"} : LinkBreaks(l, st)

\* ---- tasks --------------------------------------------------------------
Live(t) == task[t].pc \notin {"none", "done"}
LiveTasks == {t \in TaskIds : Live(t)}

\* The disconnects that were made while connected and have returned ok=true.
ReturnedDisconnects == {d \in DiscIds : disc[d].pc = "done" /\ disc[d].res = "ok"}
\* Task t belongs to a session that a returned disconnect has ended.
SessionEnded(t) == \E d \in ReturnedDisconnects : t \in disc[d].tasks

SinkEntry(t, kind) == [t |-> t, kind |-> kind, late |-> SessionEnded(t)]

InitBridge ==
  /\ reader = None /\ writer = None /\ connected = FALSE
  /\ listen_task = None /\ discord_channel = None /\ connect_time = None
  /\ link = [l \in LinkIds |-> [st |-> "unopened", closed |-> FALSE]]
  /\ nwrites = 0
  /\ sinklog = <<>>
  /\ task = [t \in TaskIds |-> [pc |-> "none", rd |-> None, cancel |-> FALSE,
                                out |-> "none"]]
  /\ conn = [c \in ConnIds |-> [pc |-> "idle", res |-> "none", w |-> None]]
  /\ disc = [d \in DiscIds |-> [pc |-> "idle", res |-> "none", aw |-> None,
                                wasConn |-> FALSE, tasks |-> {}]]
  /\ snd = [s \in SendIds |-> [pc |-> "idle", wasConn |-> FALSE,
                               wrote |-> FALSE, raised |-> FALSE, w |-> None]]
  /\ now = 1
  /\ recvd = 0

NoLines == [l \in LinkIds |-> <<>>]

\* No text is being filtered.
FilterIdle ==
  /\ IGNORED_USERS = {}
  /\ text = <<>>
  /\ filtered = <<>>
  /\ sent = <<>>

\* The state after `bridge = TelnetDiscordBridge()`
Init ==
  /\ InitBridge
  /\ wlog = [on |-> FALSE, of |-> NoLines]
  /\ FilterIdle

\* The same state, with the lines written on each link recorded from here on
InitWire ==
  /\ InitBridge
  /\ wlog = [on |-> TRUE, of |-> NoLines]
  /\ FilterIdle

\* ---- the handler invocations made so far --------------------------------
Calls ==
  Cardinality({c \in ConnIds : conn[c].pc # "idle"})
  + Cardinality({d \in DiscIds : disc[d].pc # "idle"})
  + Cardinality({s \in SendIds : snd[s].pc # "idle"})

\* A handler may be invoked while the bound leaves room for one more.
MayInvoke == Calls < MaxCalls

\* ---- TelnetDiscordBridge._send_line: writer.write(line + "\r\n") ---------
\* The line goes to whatever self.writer holds at that moment.
WriteLine(who, id, line) ==
  /\ nwrites' = nwrites + 1
  /\ wlog' = IF wlog.on
               THEN [wlog EXCEPT !.of[writer] =
                       Append(@, [who |-> who, id |-> id, line |-> line])]
               ELSE wlog

\* ---- connect_command / TelnetDiscordBridge.connect ----------------------
\* Connect calls are numbered in the order in which they are invoked.
ConnectFinish(c, ok) ==
  conn' = [conn EXCEPT ![c] = [pc |-> "done", res |-> ok, w |-> None]]

\* `except Exception`: self.connected = False; return False, "Failed to connect"
ConnectExcept(c) ==
  /\ connected' = FALSE
  /\ ConnectFinish(c, "failed")

\* ConnectBegin without the `if self.connected` rejection
ConnectBegin_NoCheck(c) ==
  /\ conn[c].pc = "idle"
  /\ MayInvoke
  /\ c > 1 => conn[c - 1].pc # "idle"
  /\ conn' = [conn EXCEPT ![c].pc = "open"]
  /\ UNCHANGED <<fvars, bridge, link, nwrites, wlog, sinklog, task, disc, snd, now, recvd>>

ConnectBegin(c) ==
  /\ conn[c].pc = "idle"
  /\ MayInvoke
  /\ c > 1 => conn[c - 1].pc # "idle"
  /\ IF connected
       THEN ConnectFinish(c, "already")
       ELSE conn' = [conn EXCEPT ![c].pc = "open"]
  /\ UNCHANGED <<fvars, bridge, link, nwrites, wlog, sinklog, task, disc, snd, now, recvd>>

\* OpenOk without `self.discord_channel = channel`
OpenOk_NoSink(c) ==
  /\ conn[c].pc = "open"
  /\ link' = [link EXCEPT ![c].st = "open"]
  /\ reader' = c /\ writer' = c
  /\ conn' = [conn EXCEPT ![c].pc = "sleep1"]
  /\ UNCHANGED <<fvars, connected, listen_task, discord_channel, connect_time, nwrites, wlog,
                 sinklog, task, disc, snd, now, recvd>>

OpenOk(c) ==
  /\ conn[c].pc = "open"
  /\ link' = [link EXCEPT ![c].st = "open"]
  /\ reader' = c /\ writer' = c
  /\ discord_channel' = WATCHTOWER_CHANNEL_ID
  /\ conn' = [conn EXCEPT ![c].pc = "sleep1"]
  /\ UNCHANGED <<fvars, connected, listen_task, connect_time, nwrites, wlog, sinklog, task,
                 disc, snd, now, recvd>>

OpenFail(c) ==
  /\ conn[c].pc = "open"
  /\ ConnectExcept(c)
  /\ UNCHANGED <<fvars, reader, writer, listen_task, discord_channel, connect_time,
                 link, nwrites, wlog, sinklog, task, disc, snd, now, recvd>>

\* sleep(0.5) is over: _send_line(TELNET_USER) writes and awaits drain(), then
\* the next sleep(0.5) starts.  drain() does not change the bridge, so the
\* wait in drain() and the wait in the sleep after it are one position.
Sleep1Done(c) ==
  /\ conn[c].pc = "sleep1"
  /\ WriteLine("connect", c, "user")
  /\ conn' = [conn EXCEPT ![c].pc = "sleep2", ![c].w = writer]
  /\ UNCHANGED <<fvars, bridge, link, sinklog, task, disc, snd, now, recvd>>

\* sleep(0.5) is over: _send_line(TELNET_PASS) writes and awaits drain(), then
\* sleep(2) starts.
Sleep2Done(c) ==
  /\ conn[c].pc = "sleep2"
  /\ WriteLine("connect", c, "pass")
  /\ conn' = [conn EXCEPT ![c].pc = "sleep3", ![c].w = writer]
  /\ UNCHANGED <<fvars, bridge, link, sinklog, task, disc, snd, now, recvd>>

\* drain() raises on a connection that is lost or closing
DrainFail(c) ==
  /\ conn[c].pc \in {"sleep2", "sleep3"}
  /\ DrainRaises(conn[c].w)
  /\ ConnectExcept(c)
  /\ UNCHANGED <<fvars, reader, writer, listen_task, discord_channel, connect_time,
                 nwrites, wlog, sinklog, task, disc, snd, now, recvd>>

\* sleep(2) is over: connected = True, create_task(_listen_telnet()), return;
\* connect_command then records connect_time.
\* Sleep3Done without the create_task call
Sleep3Done_NoTask(c) ==
  /\ conn[c].pc = "sleep3"
  /\ connected' = TRUE
  /\ ConnectFinish(c, "ok")
  /\ connect_time' = now
  /\ now' = now + 1
  /\ UNCHANGED <<fvars, reader, writer, listen_task, discord_channel, link, nwrites, wlog,
                 sinklog, task, disc, snd, recvd>>

Sleep3Done(c) ==
  /\ conn[c].pc = "sleep3"
  /\ connected' = TRUE
  /\ listen_task' = c
  /\ task' = [task EXCEPT ![c].pc = "new"]
  /\ ConnectFinish(c, "ok")
  /\ connect_time' = now
  /\ now' = now + 1
  /\ UNCHANGED <<fvars, reader, writer, discord_channel, link, nwrites, wlog, sinklog, disc,
                 snd, recvd>>

\* ---- TelnetDiscordBridge._listen_telnet ---------------------------------
\* reader.read() is called while another task is suspended in read() on the
\* same reader and the connection is up: the stream reader raises RuntimeError
\* unless a chunk is already buffered.
ReadBusy(t) ==
  /\ Writable(reader)
  /\ \E o \in TaskIds \ {t} : task[o].pc = "reading" /\ task[o].rd = reader

TaskDone(t, out) ==
  task' = [task EXCEPT ![t] = [pc |-> "done", rd |-> None, cancel |-> FALSE, out |-> out]]

\* `except Exception as e`: send the diagnostic, suspended in channel.send
ListenExcept(t) ==
  /\ task' = [task EXCEPT ![t].pc = "errsend", ![t].rd = None]
  /\ sinklog' = IF discord_channel # None
                  THEN Append(sinklog, SinkEntry(t, "diag"))
                  ELSE sinklog

\* `if data and self.discord_channel`: channel.send(chunk), suspended in it
ForwardChunk(t) ==
  /\ sinklog' = Append(sinklog, SinkEntry(t, "data"))
  /\ task' = [task EXCEPT ![t].pc = "sending", ![t].rd = None]

\* `while self.connected: data = await self.reader.read(1024)`; got is the
\* number of chunks this step has read before it comes here.
LoopHead(t, got) ==
  IF ~connected
    THEN TaskDone(t, "ok") /\ UNCHANGED sinklog /\ recvd' = recvd + got
    ELSE IF ReadBusy(t)
      THEN \/ ListenExcept(t) /\ recvd' = recvd + got
           \/ /\ Events + got < MaxEvents /\ discord_channel # None
              /\ ForwardChunk(t)
              /\ recvd' = recvd + got + 1
      ELSE /\ task' = [task EXCEPT ![t].pc = "reading", ![t].rd = reader]
           /\ UNCHANGED sinklog
           /\ recvd' = recvd + got

\* first step of the task
ListenStart(t) ==
  /\ task[t].pc = "new" /\ ~task[t].cancel
  /\ LoopHead(t, 0)
  /\ UNCHANGED <<fvars, bridge, link, nwrites, wlog, conn, disc, snd, now>>

\* read() returns a non-empty chunk (one that arrived before the link was
\* closed, if it is closed)
ListenReadData(t) ==
  /\ task[t].pc = "reading" /\ ~task[t].cancel
  /\ link[task[t].rd].st # "failed"
  /\ Events < MaxEvents
  /\ IF discord_channel # None
       THEN ForwardChunk(t) /\ recvd' = recvd + 1
       ELSE LoopHead(t, 1)
  /\ UNCHANGED <<fvars, bridge, link, nwrites, wlog, conn, disc, snd, now>>

\* read() returns '' at end of stream: back to the loop head
ListenReadEof(t) ==
  /\ task[t].pc = "reading" /\ ~task[t].cancel
  /\ link[task[t].rd].st # "failed"
  /\ \/ AtEof(task[t].rd) /\ UNCHANGED link
     \/ LinkBreaks(task[t].rd, "eof")
  /\ LoopHead(t, 0)
  /\ UNCHANGED <<fvars, bridge, nwrites, wlog, conn, disc, snd, now>>

\* read() raises the connection's error
ListenReadError(t) ==
  /\ task[t].pc = "reading" /\ ~task[t].cancel
  /\ \/ link[task[t].rd].st = "failed" /\ UNCHANGED link
     \/ LinkBreaks(task[t].rd, "failed")
  /\ ListenExcept(t)
  /\ UNCHANGED <<fvars, bridge, nwrites, wlog, conn, disc, snd, now, recvd>>

\* channel.send(chunk) returned
SinkSendOk(t) ==
  /\ task[t].pc = "sending" /\ ~task[t].cancel
  /\ LoopHead(t, 0)
  /\ UNCHANGED <<fvars, bridge, link, nwrites, wlog, conn, disc, snd, now>>

\* channel.send(chunk) raised
SinkSendFail(t) ==
  /\ task[t].pc = "sending" /\ ~task[t].cancel
  /\ ListenExcept(t)
  /\ UNCHANGED <<fvars, bridge, link, nwrites, wlog, conn, disc, snd, now, recvd>>

\* channel.send(diagnostic) returned: the task ends
DiagSendOk(t) ==
  /\ task[t].pc = "errsend" /\ ~task[t].cancel
  /\ TaskDone(t, "ok")
  /\ UNCHANGED <<fvars, bridge, link, nwrites, wlog, sinklog, conn, disc, snd, now, recvd>>

\* channel.send(diagnostic) raised: the task ends with that exception
DiagSendFail(t) ==
  /\ task[t].pc = "errsend" /\ ~task[t].cancel
  /\ TaskDone(t, "exception")
  /\ UNCHANGED <<fvars, bridge, link, nwrites, wlog, sinklog, conn, disc, snd, now, recvd>>

\* CancelledError is thrown into the task where it is suspended.  Inside the
\* try it is swallowed (`except asyncio.CancelledError: pass`); before the
\* first step or inside the `except Exception` handler the task is cancelled.
ListenCancelled(t) ==
  /\ Live(t) /\ task[t].cancel
  /\ TaskDone(t, IF task[t].pc \in {"reading", "sending"} THEN "ok" ELSE "cancelled")
  /\ UNCHANGED <<fvars, bridge, link, nwrites, wlog, sinklog, conn, disc, snd, now, recvd>>

\* ---- disconnect_command / TelnetDiscordBridge.disconnect ----------------
\* Disconnect calls are numbered in the order in which they are invoked.
DisconnectReturn(d, dr, res) ==
  disc' = [disc EXCEPT ![d] = [dr EXCEPT !.pc = "done", !.res = res, !.aw = None]]

\* From the end of `await self.listen_task` to the return.  t is the awaited
\* task (None when there was none).  A CancelledError is passed over; any
\* other exception of the task, and an exception of writer.close(), go to
\* the outer `except Exception`, which returns without touching the bridge.
AfterAwait(d, dr, t) ==
  IF t # None /\ task[t].out = "exception"
    THEN /\ DisconnectReturn(d, dr, "error")
         /\ UNCHANGED <<link, connected>>
    ELSE \E closeRaises \in BOOLEAN :
           IF writer # None /\ closeRaises
             THEN /\ DisconnectReturn(d, dr, "error")
                  /\ UNCHANGED <<link, connected>>
             ELSE /\ link' = IF writer # None
                               THEN [link EXCEPT ![writer].closed = TRUE]
                               ELSE link
                  /\ connected' = FALSE
                  /\ DisconnectReturn(d, dr, "ok")

\* DisconnectBegin without the `if not self.connected` rejection
DisconnectBegin_NoCheck(d) ==
  /\ disc[d].pc = "idle"
  /\ MayInvoke
  /\ d > 1 => disc[d - 1].pc # "idle"
  /\ LET dr == [disc[d] EXCEPT !.wasConn = connected,
                               !.tasks = {t \in TaskIds : task[t].pc # "none"}]
     IN  IF listen_task # None /\ Live(listen_task)
           THEN /\ task' = [task EXCEPT ![listen_task].cancel = TRUE]
                /\ disc' = [disc EXCEPT ![d] = [dr EXCEPT !.pc = "await",
                                                          !.aw = listen_task]]
                /\ UNCHANGED <<link, connected>>
           ELSE /\ AfterAwait(d, dr, listen_task)
                /\ UNCHANGED task
  /\ UNCHANGED <<fvars, reader, writer, listen_task, discord_channel, connect_time,
                 nwrites, wlog, sinklog, conn, snd, now, recvd>>

DisconnectBegin(d) ==
  /\ disc[d].pc = "idle"
  /\ MayInvoke
  /\ d > 1 => disc[d - 1].pc # "idle"
  /\ IF ~connected
       THEN /\ DisconnectReturn(d, disc[d], "notconn")
            /\ UNCHANGED <<link, connected, task>>
       ELSE LET dr == [disc[d] EXCEPT !.wasConn = TRUE,
                                      !.tasks = {t \in TaskIds : task[t].pc # "none"}]
            IN  IF listen_task # None /\ Live(listen_task)
                  THEN \* cancel(), suspended in `await self.listen_task`
                       /\ task' = [task EXCEPT ![listen_task].cancel = TRUE]
                       /\ disc' = [disc EXCEPT ![d] = [dr EXCEPT !.pc = "await",
                                                                 !.aw = listen_task]]
                       /\ UNCHANGED <<link, connected>>
                  ELSE /\ AfterAwait(d, dr, listen_task)
                       /\ UNCHANGED task
  /\ UNCHANGED <<fvars, reader, writer, listen_task, discord_channel, connect_time,
                 nwrites, wlog, sinklog, conn, snd, now, recvd>>

DisconnectResume(d) ==
  /\ disc[d].pc = "await"
  /\ ~Live(disc[d].aw)
  /\ AfterAwait(d, disc[d], disc[d].aw)
  /\ UNCHANGED <<fvars, reader, writer, listen_task, discord_channel, connect_time,
                 nwrites, wlog, sinklog, task, conn, snd, now, recvd>>

\* ---- on_message / TelnetDiscordBridge.send -------------------------------
\* Send calls are numbered in the order in which they are invoked.
\* SendBegin that tests only `self.writer`, not `self.connected`
SendBegin_NoConnectedCheck(s) ==
  /\ snd[s].pc = "idle"
  /\ MayInvoke
  /\ s > 1 => snd[s - 1].pc # "idle"
  /\ IF writer # None
       THEN /\ WriteLine("send", s, "text")
            /\ snd' = [snd EXCEPT ![s] = [pc |-> "drain", wasConn |-> connected,
                                          wrote |-> TRUE, raised |-> FALSE,
                                          w |-> writer]]
       ELSE /\ snd' = [snd EXCEPT ![s] = [pc |-> "done", wasConn |-> connected,
                                          wrote |-> FALSE, raised |-> FALSE,
                                          w |-> None]]
            /\ UNCHANGED <<nwrites, wlog>>
  /\ UNCHANGED <<fvars, bridge, link, sinklog, task, conn, disc, now, recvd>>

\* SendBegin that suspends before it writes: the write() call is not made in
\* the step that invokes the Send
SendBegin_SuspendBeforeWrite(s) ==
  /\ snd[s].pc = "idle"
  /\ MayInvoke
  /\ s > 1 => snd[s - 1].pc # "idle"
  /\ IF connected /\ writer # None
       THEN snd' = [snd EXCEPT ![s] = [pc |-> "drain", wasConn |-> connected,
                                       wrote |-> FALSE, raised |-> FALSE,
                                       w |-> writer]]
       ELSE snd' = [snd EXCEPT ![s] = [pc |-> "done", wasConn |-> connected,
                                       wrote |-> FALSE, raised |-> FALSE,
                                       w |-> None]]
  /\ UNCHANGED <<fvars, bridge, link, nwrites, wlog, sinklog, task, conn, disc, now, recvd>>

SendBegin(s) ==
  /\ snd[s].pc = "idle"
  /\ MayInvoke
  /\ s > 1 => snd[s - 1].pc # "idle"
  /\ IF connected /\ writer # None
       THEN /\ WriteLine("send", s, "text")
            /\ snd' = [snd EXCEPT ![s] = [pc |-> "drain", wasConn |-> connected,
                                          wrote |-> TRUE, raised |-> FALSE,
                                          w |-> writer]]
       ELSE /\ snd' = [snd EXCEPT ![s] = [pc |-> "done", wasConn |-> connected,
                                          wrote |-> FALSE, raised |-> FALSE,
                                          w |-> None]]
            /\ UNCHANGED <<nwrites, wlog>>
  /\ UNCHANGED <<fvars, bridge, link, sinklog, task, conn, disc, now, recvd>>

SendDrainOk(s) ==
  /\ snd[s].pc = "drain"
  /\ snd' = [snd EXCEPT ![s].pc = "done", ![s].w = None]
  /\ UNCHANGED <<fvars, bridge, link, nwrites, wlog, sinklog, task, conn, disc, now, recvd>>

\* drain() raises on a connection that is lost or closing; the exception
\* leaves send and on_message
SendDrainFail(s) ==
  /\ snd[s].pc = "drain"
  /\ DrainRaises(snd[s].w)
  /\ snd' = [snd EXCEPT ![s].pc = "done", ![s].w = None, ![s].raised = TRUE]
  /\ UNCHANGED <<fvars, bridge, nwrites, wlog, sinklog, task, conn, disc, now, recvd>>

Next ==
  \/ \E c \in ConnIds : ConnectBegin(c)
  \/ \E c \in ConnIds : OpenOk(c)
  \/ \E c \in ConnIds : OpenFail(c)
  \/ \E c \in ConnIds : Sleep1Done(c)
  \/ \E c \in ConnIds : Sleep2Done(c)
  \/ \E c \in ConnIds : DrainFail(c)
  \/ \E c \in ConnIds : Sleep3Done(c)
  \/ \E t \in TaskIds : ListenStart(t)
  \/ \E t \in TaskIds : ListenReadData(t)
  \/ \E t \in TaskIds : ListenReadEof(t)
  \/ \E t \in TaskIds : ListenReadError(t)
  \/ \E t \in TaskIds : SinkSendOk(t)
  \/ \E t \in TaskIds : SinkSendFail(t)
  \/ \E t \in TaskIds : DiagSendOk(t)
  \/ \E t \in TaskIds : DiagSendFail(t)
  \/ \E t \in TaskIds : ListenCancelled(t)
  \/ \E d \in DiscIds : DisconnectBegin(d)
  \/ \E d \in DiscIds : DisconnectResume(d)
  \/ \E s \in SendIds : SendBegin(s)
  \/ \E s \in SendIds : SendDrainOk(s)
  \/ \E s \in SendIds : SendDrainFail(s)

Spec == Init /\ [][Next]_vars

\* The same program with the lines written on each link recorded
SpecWire == InitWire /\ [][Next]_vars

\* ---- remove_ignored_user_lines --------------------------------------------
\* A text is the sequence of its characters.
NL == "\n"
SP == " "
\* the character U+0060, which a string of this language cannot hold
Backtick == "U+0060"
Says == <<" ", "s", "a", "y", "s", ":">>
Alice == <<"a", "l", "i", "c", "e">>
Bob == <<"b", "o", "b">>
Carol == <<"c", "a", "r", "o", "l">>

\* Python's str.strip(): the whitespace characters that occur in the texts
IsSpace(ch) == ch \in {SP, NL}

Strip(t) ==
  LET solid == {i \in 1..Len(t) : ~IsSpace(t[i])}
  IN  IF solid = {}
        THEN <<>>
        ELSE SubSeq(t, CHOOSE i \in solid : \A j \in solid : i <= j,
                       CHOOSE i \in solid : \A j \in solid : i >= j)

StartsWith(t, p) == Len(t) >= Len(p) /\ SubSeq(t, 1, Len(p)) = p

\* The lines of t: with re.MULTILINE `^` matches at the start of the text and
\* after every "\n", and `.*$` runs to the next "\n" or the end of the text.
RECURSIVE SplitLines(_)
SplitLines(t) ==
  IF \A i \in 1..Len(t) : t[i] # NL
    THEN <<t>>
    ELSE LET n == CHOOSE i \in 1..Len(t) :
                    t[i] = NL /\ \A j \in 1..(i - 1) : t[j] # NL
         IN  <<SubSeq(t, 1, n - 1)>> \o SplitLines(SubSeq(t, n + 1, Len(t)))

RECURSIVE JoinLines(_)
JoinLines(ls) ==
  IF ls = <<>> THEN <<>>
  ELSE IF Len(ls) = 1 THEN ls[1]
  ELSE ls[1] \o <<NL>> \o JoinLines(Tail(ls))

\* '|'.join(re.escape(user) for user in IGNORED_USERS): the alternatives of
\* the group; an empty list gives the one empty alternative.
Alternatives == IF IGNORED_USERS = {} THEN {<<>>} ELSE IGNORED_USERS

\* pattern = ^(?:user|user|...) says:.*$ matches the line
PatternMatches(line) == \E u \in Alternatives : StartsWith(line, u \o Says)

\* re.sub(pattern, '', text, flags=re.MULTILINE): the characters of every
\* matching line are replaced by nothing; the "\n" after it is not part of
\* the match and stays.
ReSub(t) ==
  LET ls == SplitLines(t)
  IN  JoinLines([i \in 1..Len(ls) |-> IF PatternMatches(ls[i]) THEN <<>> ELSE ls[i]])

remove_ignored_user_lines(t) == Strip(ReSub(t))

\* f"```ansi\n{data}\n```"
Envelope(data) ==
  <<Backtick, Backtick, Backtick, "a", "n", "s", "i", NL>>
    \o data \o <<NL, Backtick, Backtick, Backtick>>

\* ---- the texts the filter is applied to ------------------------------------
Pieces == {<<NL>>, <<SP>>, <<"x">>, Bob, Says, Bob \o Says}

RECURSIVE Concat(_)
Concat(ps) == IF ps = <<>> THEN <<>> ELSE Head(ps) \o Concat(Tail(ps))

\* "alice says: hi\ncarol says: hey\nbob says: yo\n"
ThreeSpeakers ==
  Alice \o Says \o <<SP, "h", "i", NL>> \o Carol \o Says \o <<SP, "h", "e", "y", NL>>
    \o Bob \o Says \o <<SP, "y", "o", NL>>

\* "bob says: spam\nsystem: alert\n"
SpamAndAlert ==
  Bob \o Says \o <<SP, "s", "p", "a", "m", NL>>
    \o <<"s", "y", "s", "t", "e", "m", ":", SP, "a", "l", "e", "r", "t", NL>>

Texts ==
  {Concat(ps) : ps \in UNION {[1..n -> Pieces] : n \in 0..MaxPieces}}
    \cup {ThreeSpeakers, SpamAndAlert}

IgnoreSets == {{}, {Bob}, {Alice, Bob}}

\* A text and a configured ignore list; the bridge is not used.
InitFilter ==
  /\ InitBridge
  /\ wlog = [on |-> FALSE, of |-> NoLines]
  /\ IGNORED_USERS \in IgnoreSets
  /\ text \in Texts
  /\ filtered = <<>>
  /\ sent = <<>>

\* remove_ignored_user_lines(text), and then remove_ignored_user_lines of
\* what it returned
ApplyFilter ==
  /\ Len(filtered) < 2
  /\ filtered' = Append(filtered,
                        remove_ignored_user_lines(IF filtered = <<>>
                                                    THEN text
                                                    ELSE filtered[Len(filtered)]))
  /\ UNCHANGED <<pvars, IGNORED_USERS, text, sent>>

\* _listen_telnet with data = text read and a channel present:
\*   if data and self.discord_channel:
\*       msg = f"```ansi\n{data}\n```"
\*       await self.discord_channel.send(remove_ignored_user_lines(text=msg))
ForwardText ==
  /\ sent = <<>>
  /\ text # <<>>
  /\ sent' = <<remove_ignored_user_lines(Envelope(text))>>
  /\ UNCHANGED <<pvars, IGNORED_USERS, text, filtered>>

NextFilter ==
  \/ ApplyFilter
  \/ ForwardText

SpecFilter == InitFilter /\ [][NextFilter]_vars

\* ---- properties -----------------------------------------------------------
ConnectReturns(c) == conn[c].pc # "done" /\ conn'[c].pc = "done"
ConnectInvoked(c) == conn[c].pc = "idle" /\ conn'[c].pc # "idle"
DisconnectReturns(d) == disc[d].pc # "done" /\ disc'[d].pc = "done"
DisconnectInvoked(d) == disc[d].pc = "idle" /\ disc'[d].pc # "idle"
SendInvoked(s) == snd[s].pc = "idle" /\ snd'[s].pc # "idle"

\* C1 (as claimed): every Disconnect made while connected leaves the bridge
\* disconnected when it returns, whatever error close() or the awaited
\* listening task raised.
C1_DisconnectAlwaysDisconnects ==
  [][\A d \in DiscIds :
       (DisconnectReturns(d) /\ disc'[d].wasConn) => ~connected']_vars

\* C2 (as claimed): connected only with a link that is open (not closed, not
\* failed, not at end of stream) and a stored sink.
C2_ConnectedOnlyWithOpenLink ==
  connected => /\ writer # None /\ reader # None
               /\ Writable(writer)
               /\ discord_channel # None

\* C2 (amended): connected only with the link fields and the sink set; the
\* link itself need not be open.
C2_ConnectedOnlyWithLinkAndSink ==
  connected => /\ writer # None /\ reader # None
               /\ link[writer].st # "unopened" /\ link[reader].st # "unopened"
               /\ discord_channel # None

C2_Witness ==
  /\ connected /\ writer # None /\ discord_channel # None
  /\ link[writer].st = "failed"

\* C3 (as claimed): while no Connect or Disconnect is in progress, link, sink
\* and listener are all present (connected) or all absent (after a Disconnect
\* or a failed Connect, and initially).
Quiescent ==
  /\ \A c \in ConnIds : conn[c].pc \in {"idle", "done"}
  /\ \A d \in DiscIds : disc[d].pc \in {"idle", "done"}

C3_FieldsPresentOrAbsentTogether ==
  Quiescent =>
    IF connected
      THEN writer # None /\ discord_channel # None /\ listen_task # None
      ELSE writer = None /\ discord_channel = None /\ listen_task = None

\* C4 (as claimed): at most one listening task that has not terminated.
C4_AtMostOneListener == Cardinality(LiveTasks) <= 1

\* C5 (as claimed): once a Disconnect made while connected has returned, no
\* listening task of that session (a task that existed when the Disconnect was
\* invoked) sends anything to the sink.  Stated for the Disconnects that
\* returned ok=true, where the session has certainly ended.
C5_NoSinkSendAfterDisconnect ==
  \A i \in DOMAIN sinklog : ~sinklog[i].late

\* C6 (as claimed): no link closed by Disconnect has a listening task
\* suspended in a read on it.
C6_NoReadOnClosedLink ==
  \A t \in TaskIds :
    (task[t].pc = "reading") => ~link[task[t].rd].closed

\* C7: a Connect invoked while connected returns at once with ok=false, and
\* leaves the bridge fields, the links, the number of writes made and the
\* tasks as they were.
C7_ConnectWhileConnectedIsNoOp ==
  [][\A c \in ConnIds :
       (ConnectInvoked(c) /\ connected) =>
         /\ conn'[c].pc = "done" /\ conn'[c].res = "already"
         /\ UNCHANGED <<bridge, link, nwrites, wlog, task>>]_vars

C7_Witness ==
  \E c \in ConnIds : conn[c].res = "already" /\ connected /\ connect_time # None

\* C8: a Disconnect invoked while not connected returns at once with ok=false;
\* no task is cancelled, no link is closed, no bridge field changes.
C8_DisconnectWhileNotConnectedIsNoOp ==
  [][\A d \in DiscIds :
       (DisconnectInvoked(d) /\ ~connected) =>
         /\ disc'[d].pc = "done" /\ disc'[d].res = "notconn"
         /\ UNCHANGED <<bridge, link, nwrites, wlog, sinklog, task>>]_vars

C8_Witness ==
  \E d \in DiscIds : disc[d].res = "notconn" /\ writer # None

\* C9: a Send invoked while not connected makes no write() call on any link
\* and returns without raising.
C9_SendWhileNotConnectedWritesNothing ==
  [][\A s \in SendIds :
       (SendInvoked(s) /\ ~connected) =>
         /\ nwrites' = nwrites
         /\ snd'[s].pc = "done" /\ ~snd'[s].raised /\ ~snd'[s].wrote]_vars

C9_Witness ==
  \E s \in SendIds :
    /\ snd[s].pc = "done" /\ ~snd[s].wasConn
    /\ writer # None /\ Writable(writer)

\* C10: a Connect that returns ok=true leaves the bridge connected with the
\* passed sink stored and has started exactly one listening task; a Connect
\* that returns ok=false has started none.
NewTasks == {t \in TaskIds : task[t].pc = "none" /\ task'[t].pc # "none"}

C10_ConnectResultAndListener ==
  [][\A c \in ConnIds :
       ConnectReturns(c) =>
         IF conn'[c].res = "ok"
           THEN /\ connected'
                /\ discord_channel' = WATCHTOWER_CHANNEL_ID
                /\ NewTasks = {c}
           ELSE /\ NewTasks = {}
                /\ task[c].pc = "none"]_vars

C10_Witness ==
  /\ \E c \in ConnIds : conn[c].res = "ok" /\ task[c].pc # "none"
  /\ \E c \in ConnIds : conn[c].res = "failed" /\ task[c].pc = "none"

\* C11 (as claimed): a Connect whose link open fails returns ok=false and
\* changes neither the connected flag nor link, sink or listener, whatever
\* other Connect calls did while it was suspended in open_connection.
C11_OpenFailureChangesNothing ==
  [][\A c \in ConnIds :
       (conn[c].pc = "open" /\ ConnectReturns(c)) =>
         /\ conn'[c].res = "failed"
         /\ UNCHANGED <<connected, reader, writer, discord_channel, listen_task>>]_vars

\* C12 (as claimed): when the read of the only listening task meets the end
\* of the stream or a connection error while connected, the task sends one
\* diagnostic to the sink and stops reading; a task that has sent its
\* diagnostic sends nothing more and never reads again.
ReadEnds(t) ==
  /\ connected /\ LiveTasks = {t}
  /\ task[t].pc = "reading" /\ ~task[t].cancel
  /\ link[task[t].rd].st = "open"
  /\ link'[task[t].rd].st \in {"eof", "failed"}
  /\ conn' = conn /\ disc' = disc /\ snd' = snd

C12_LinkEndGivesOneDiagnostic ==
  [][\A t \in TaskIds :
       /\ ReadEnds(t) =>
            /\ task'[t].pc = "errsend"
            /\ sinklog' = Append(sinklog, SinkEntry(t, "diag"))
       /\ task[t].pc \in {"errsend", "done"} =>
            /\ task'[t].pc \in {"errsend", "done"}
            /\ \/ sinklog' = sinklog
               \/ sinklog'[Len(sinklog')].t # t]_vars

\* C13 (as claimed): the steps in which a listening task meets a read error
\* and reports it change no bridge field; and from then on, while the bridge
\* is connected, every Send writes on the bridge's link, every Connect is
\* rejected as already connected, and the bridge fields change only in a step
\* of a Disconnect.
Faulted(t) ==
  /\ task[t].pc \in {"errsend", "done"}
  /\ \E i \in DOMAIN sinklog : sinklog[i].t = t /\ sinklog[i].kind = "diag"

FaultStep(t) ==
  \/ task[t].pc = "reading" /\ task'[t].pc = "errsend"
  \/ task[t].pc = "errsend" /\ task'[t].pc = "done"

C13_ListenerFaultChangesNoField ==
  [][/\ \A t \in TaskIds : FaultStep(t) => UNCHANGED bridge
     /\ (connected /\ listen_task # None /\ Faulted(listen_task)) =>
          /\ \A s \in SendIds :
               SendInvoked(s) =>
                 snd'[s].wrote /\ snd'[s].w = writer /\ nwrites' = nwrites + 1
          /\ \A c \in ConnIds :
               ConnectInvoked(c) => conn'[c].res = "already" /\ UNCHANGED bridge
          /\ bridge' # bridge => \E d \in DiscIds : disc'[d] # disc[d]]_vars

\* C17 (as claimed): a Send invoked while connected makes exactly one write()
\* call in that step and never ends by raising.
C17_SendWhileConnectedWritesAndReturns ==
  [][\A s \in SendIds :
       /\ (SendInvoked(s) /\ connected) =>
            snd'[s].wrote /\ nwrites' = nwrites + 1
       /\ (snd[s].pc = "drain" /\ snd'[s].pc = "done") => ~snd'[s].raised]_vars

\* C19: a Send invoked while connected makes its write() call in the step
\* that invokes it, before its first suspension, and makes none after it; so
\* the write() calls of the Sends are made in the order in which the Sends
\* were invoked (Sends are numbered in that order), also while earlier Sends
\* are still suspended in drain().
SendWrites(s) == ~snd[s].wrote /\ snd'[s].wrote

C19_SendWritesBeforeSuspending ==
  [][\A s \in SendIds :
       /\ (SendInvoked(s) /\ connected) =>
            SendWrites(s) /\ nwrites' = nwrites + 1
       /\ (snd[s].pc = "drain" /\ snd'[s] # snd[s]) => nwrites' = nwrites
       /\ SendWrites(s) =>
            \A o \in SendIds :
              /\ o < s => snd[o].pc # "idle" /\ snd[o].wrote = snd[o].wasConn
              /\ o > s => snd[o].pc = "idle"]_vars

C19_Witness ==
  /\ \A s \in SendIds : snd[s].pc = "drain" /\ snd[s].wrote /\ snd[s].w = writer
  /\ nwrites = 2 + MaxSends

\* C18 (as claimed): on every link, the first line written is the username and
\* the second the password, both written by the Connect call that opened the
\* link; no Send text and no line of another Connect call comes before or
\* between them.
Credential(c, line) == [who |-> "connect", id |-> c, line |-> line]

C18_HandshakeLinesComeFirst ==
  \A l \in LinkIds :
    /\ Len(wlog.of[l]) >= 1 => wlog.of[l][1] = Credential(l, "user")
    /\ Len(wlog.of[l]) >= 2 => wlog.of[l][2] = Credential(l, "pass")

\* C14 (as claimed): for a non-empty chunk read with a sink present the sink
\* receives exactly one message, the envelope around the filtered chunk
\* (filter first, then wrap).
C14_SinkGetsEnvelopeOfFilteredChunk ==
  sent # <<>> => sent = <<Envelope(remove_ignored_user_lines(text))>>

\* C15 (as claimed): the filter returns the lines of the input without the
\* lines that start with "<identifier> says:" for an identifier of the ignore
\* set, the other lines unchanged and in order, the whole trimmed; with an
\* empty ignore set no line is removed.
Ignored(line) == \E u \in IGNORED_USERS : StartsWith(line, u \o Says)

Kept(line) == ~Ignored(line)

LinesRemoved(t) == Strip(JoinLines(SelectSeq(SplitLines(t), Kept)))

C15_FilterRemovesIgnoredLines ==
  filtered # <<>> => filtered[1] = LinesRemoved(text)

\* C16 (as claimed): filtering the filter's result returns it unchanged.
C16_FilterIdempotent ==
  Len(filtered) = 2 => filtered[2] = filtered[1]
====
